---- MODULE Spec2Model ----
(***************************************************************************)
(* Model of src/src/App.tsx: a 4x4 jigsaw puzzle.                          *)
(*   - getEdges / edgePath* / buildPiecePath: the piece outlines           *)
(*   - generateScatter: the rejection-sampling layout of the loose pieces  *)
(*   - handleDrop / handleExplosion: the placement state machine           *)
(***************************************************************************)
EXTENDS Integers, Sequences, FiniteSets, TLC

VARIABLES
    placed,          \* useState placed: piece id -> boolean
    scatter,         \* useState scatter: piece id -> [start |-> [x, y], tilt]
    showExplosion,   \* useState showExplosion
    explosionTimer,  \* useRef explosionTimer: [current, pending]
    mounted,         \* the mount effect has run (stageRef.current is set, resize listener added)
    window,          \* host: window.innerWidth/innerHeight and the stage's bounding rect
    random,          \* host: the random stream the last generateScatter run drew from
    view             \* the outlines last computed by a render of two pieces

vars == <<placed, scatter, showExplosion, explosionTimer, mounted, window, random, view>>

(***************************************************************************)
(* Constants of the program                                                *)
(***************************************************************************)
ROWS == 4
COLS == 4
tabRadius == 22
maxAttempts == 600
padding == 48

\* Array.from({ length: 16 }, ...): index + 1 formatted as `p${index + 1}`
PieceIdTable ==
    <<"p1", "p2", "p3", "p4", "p5", "p6", "p7", "p8",
      "p9", "p10", "p11", "p12", "p13", "p14", "p15", "p16">>

pieces ==
    [i \in 1..Len(PieceIdTable) |-> [id |-> PieceIdTable[i], label |-> i, slot |-> i - 1]]

PieceIds == {pieces[i].id : i \in DOMAIN pieces}

\* Property names every plain object inherits from Object.prototype; a lookup
\* of one of them on placed or piecesById yields a (truthy) inherited value.
InheritedKeys ==
    {"constructor", "toString", "toLocaleString", "valueOf", "hasOwnProperty",
     "isPrototypeOf", "propertyIsEnumerable", "__proto__", "__defineGetter__",
     "__defineSetter__", "__lookupGetter__", "__lookupSetter__"}

\* piecesById = Object.fromEntries(pieces.map((piece) => [piece.id, piece]))
piecesById == [id \in PieceIds |-> CHOOSE i \in DOMAIN pieces : pieces[i].id = id]

\* a plausible slip: some instead of every
IsCompleteSome == \E k \in DOMAIN placed : placed[k]

\* isComplete = Object.values(placed).every(Boolean)
isComplete == \A k \in DOMAIN placed : placed[k]

(***************************************************************************)
(* Piece outlines. A path is the sequence of the commands of the `d`       *)
(* string: M x y, L x y, A rx ry rot large sweep x y, Z.                   *)
(***************************************************************************)
MoveTo(x, y) == [cmd |-> "M", x |-> x, y |-> y]
LineTo(x, y) == [cmd |-> "L", x |-> x, y |-> y]
ClosePath == [cmd |-> "Z"]

\* arc(r, sweep, x, y) = `A ${r} ${r} 0 0 ${sweep} ${x} ${y}`
arc(r, sweep, x, y) ==
    [cmd |-> "A", rx |-> r, ry |-> r, rot |-> 0, large |-> 0, sweep |-> sweep,
     x |-> x, y |-> y]

edgePathTop(edge) ==
    IF edge = 0 THEN <<LineTo(100, 0)>>
    ELSE LET r == tabRadius
             sweep == IF edge = 1 THEN 1 ELSE 0
         IN  <<LineTo(50 - r, 0), arc(r, sweep, 50 + r, 0), LineTo(100, 0)>>

edgePathRight(edge) ==
    IF edge = 0 THEN <<LineTo(100, 100)>>
    ELSE LET r == tabRadius
             sweep == IF edge = 1 THEN 0 ELSE 1
         IN  <<LineTo(100, 50 - r), arc(r, sweep, 100, 50 + r), LineTo(100, 100)>>

edgePathBottom(edge) ==
    IF edge = 0 THEN <<LineTo(0, 100)>>
    ELSE LET r == tabRadius
             sweep == IF edge = 1 THEN 1 ELSE 0
         IN  <<LineTo(50 + r, 100), arc(r, sweep, 50 - r, 100), LineTo(0, 100)>>

\* a plausible slip: the left edge takes the sweep flag the top edge takes
EdgePathLeftSweepOfTop(edge) ==
    IF edge = 0 THEN <<LineTo(0, 0)>>
    ELSE LET r == tabRadius
             sweep == IF edge = 1 THEN 1 ELSE 0
         IN  <<LineTo(0, 50 + r), arc(r, sweep, 0, 50 - r), LineTo(0, 0)>>

edgePathLeft(edge) ==
    IF edge = 0 THEN <<LineTo(0, 0)>>
    ELSE LET r == tabRadius
             sweep == IF edge = 1 THEN 0 ELSE 1
         IN  <<LineTo(0, 50 + r), arc(r, sweep, 0, 50 - r), LineTo(0, 0)>>

buildPiecePath(edges) ==
    <<MoveTo(0, 0)>> \o edgePathTop(edges.top) \o edgePathRight(edges.right)
        \o edgePathBottom(edges.bottom) \o edgePathLeft(edges.left) \o <<ClosePath>>

\* getPieceCoords, and the Math.floor(piece.slot / COLS), piece.slot % COLS of the render
getPieceCoords(slot) == [row |-> slot \div COLS, col |-> slot % COLS]

\* the checkerboard parity of getEdges
tab(r, c) == IF (r + c) % 2 = 0 THEN 1 ELSE -1

\* a plausible slip: the left edge samples the cell's own parity
GetEdgesLeftOwnParity(row, col) ==
    [top    |-> IF row = 0 THEN 0 ELSE tab(row - 1, col),
     right  |-> IF col = COLS - 1 THEN 0 ELSE tab(row, col),
     bottom |-> IF row = ROWS - 1 THEN 0 ELSE -tab(row, col),
     left   |-> IF col = 0 THEN 0 ELSE -tab(row, col)]

\* a plausible slip: the last row and column are tested one too far
GetEdgesLastOffByOne(row, col) ==
    [top    |-> IF row = 0 THEN 0 ELSE tab(row - 1, col),
     right  |-> IF col = COLS THEN 0 ELSE tab(row, col),
     bottom |-> IF row = ROWS THEN 0 ELSE -tab(row, col),
     left   |-> IF col = 0 THEN 0 ELSE -tab(row, col - 1)]

getEdges(row, col) ==
    [top    |-> IF row = 0 THEN 0 ELSE tab(row - 1, col),
     right  |-> IF col = COLS - 1 THEN 0 ELSE tab(row, col),
     bottom |-> IF row = ROWS - 1 THEN 0 ELSE -tab(row, col),
     left   |-> IF col = 0 THEN 0 ELSE -tab(row, col - 1)]

\* what a render computes for one piece: its edge codes and its outline
outlineOf(piece) ==
    LET edges == getEdges(getPieceCoords(piece.slot).row, getPieceCoords(piece.slot).col)
    IN  [slot |-> piece.slot, edges |-> edges, path |-> buildPiecePath(edges)]

(***************************************************************************)
(* Reading an outline: the arcs of a path and the side they bulge to.      *)
(* Every arc of an outline joins two points 2 * r apart with radius r, so  *)
(* it is a half circle centred on the middle of its chord. With sweep 1    *)
(* it runs in the direction of increasing angle of the SVG axes (x to the  *)
(* right, y down), with sweep 0 in the other direction.                    *)
(***************************************************************************)
\* the arcs of a path, each with the point it starts from
arcsOf(path) ==
    {[from |-> [x |-> path[k - 1].x, y |-> path[k - 1].y], arc |-> path[k]] :
        k \in {j \in 2..Len(path) : path[j].cmd = "A"}}

\* the point of the arc farthest from its chord
apex(a) ==
    LET cx == (a.from.x + a.arc.x) \div 2
        cy == (a.from.y + a.arc.y) \div 2
        vx == a.from.x - cx
        vy == a.from.y - cy
    IN  IF a.arc.sweep = 1 THEN [x |-> cx - vy, y |-> cy + vx]
        ELSE [x |-> cx + vy, y |-> cy - vx]

\* the arcs of a path lying on one side of the 0..100 cell square
onSide(a, side) ==
    CASE side = "top"    -> a.from.y = 0 /\ a.arc.y = 0
      [] side = "right"  -> a.from.x = 100 /\ a.arc.x = 100
      [] side = "bottom" -> a.from.y = 100 /\ a.arc.y = 100
      [] side = "left"   -> a.from.x = 0 /\ a.arc.x = 0

sideArcs(path, side) == {a \in arcsOf(path) : onSide(a, side)}

outsideCell(pt) == pt.x < 0 \/ pt.x > 100 \/ pt.y < 0 \/ pt.y > 100
insideCell(pt) == pt.x > 0 /\ pt.x < 100 /\ pt.y > 0 /\ pt.y < 100

(***************************************************************************)
(* handleDrop                                                              *)
(***************************************************************************)
\* placed[id] as a condition: own entry, else inherited property, else undefined
placedTruthy(cur, id) ==
    IF id \in DOMAIN cur THEN cur[id] ELSE id \in InheritedKeys

\* a plausible slip: the slot is compared with the piece's number
SlotMismatchByNumber(id, slotIndex) ==
    IF id \in DOMAIN piecesById THEN piecesById[id] # slotIndex ELSE TRUE

\* piece.slot !== slotIndex for piece = piecesById[id]; an inherited property
\* of piecesById is truthy and has no slot (undefined !== slotIndex)

slotMismatch(id, slotIndex) ==
    IF id \in DOMAIN piecesById THEN pieces[piecesById[id]].slot # slotIndex ELSE TRUE

\* a plausible slip: the update drops the spread of the current record
DropResultWithoutSpread(cur, id, slotIndex) ==
    IF id = "" \/ placedTruthy(cur, id) THEN cur
    ELSE IF (id \notin DOMAIN piecesById /\ id \notin InheritedKeys) \/ slotMismatch(id, slotIndex)
         THEN cur
         ELSE (id :> TRUE)

\* the value of placed after handleDrop with dataTransfer text id on slot slotIndex
dropResult(cur, id, slotIndex) ==
    IF id = "" \/ placedTruthy(cur, id) THEN cur
    ELSE IF (id \notin DOMAIN piecesById /\ id \notin InheritedKeys) \/ slotMismatch(id, slotIndex)
         THEN cur
         ELSE (id :> TRUE) @@ cur

(***************************************************************************)
(* generateScatter                                                         *)
(*                                                                         *)
(* Lengths are fixed-point numbers. The locals computed before the loop    *)
(* count Unit steps per CSS pixel, fine enough for pieceVisualSize / 2,    *)
(* minDistance and the midpoints to be whole numbers of steps.             *)
(* Math.random() returns u / RandDen for a numerator u in 0..RandDen-1,    *)
(* so the values of rand, the candidates, the positions and the scatter    *)
(* entries count Fine = Unit * RandDen steps per CSS pixel (and per degree *)
(* of tilt): min + u / RandDen * (max - min) is a whole number of them.    *)
(* The numerators drawn during one run form a stream                       *)
(* u(n) = (b + a * n) % RandDen, n = 0, 1, 2, ... counting the calls of    *)
(* Math.random in the run; the stride a <= MaxStride and the offset        *)
(* b <= MaxOffset of the stream are inputs of the run.                     *)
(***************************************************************************)
Unit == 2 * 5 * 5 * 5

RandDen == 16
MaxStride == 2
MaxOffset == 5

\* steps per CSS pixel (and per degree) of the values rand returns
Fine == Unit * RandDen

Streams == [a : 0..MaxStride, b : 0..MaxOffset]

MathRandom(stream, n) == (stream.b + stream.a * n) % RandDen

\* svgScale = (100 + tabRadius * 2) / 100, applied to a length
svgScaled(len) == (len * (100 + tabRadius * 2)) \div 100

pieceSize(win) == IF win.innerWidth <= 700 THEN 86 ELSE 96
pieceVisualSize(win) == svgScaled(pieceSize(win) * Unit)
minDistance(win) == (pieceVisualSize(win) * 11) \div 10

centerX(win) == win.left * Unit + (win.width * Unit) \div 2
centerY(win) == win.top * Unit + (win.height * Unit) \div 2

minX(win) == padding * Unit + pieceVisualSize(win) \div 2 - centerX(win)
maxX(win) == win.innerWidth * Unit - padding * Unit - pieceVisualSize(win) \div 2 - centerX(win)
minY(win) == padding * Unit + pieceVisualSize(win) \div 2 - centerY(win)
maxY(win) == win.innerHeight * Unit - padding * Unit - pieceVisualSize(win) \div 2 - centerY(win)

\* a plausible slip: a collapsed axis keeps its (empty) range
SafeRangeNotCollapsed(lo, hi) == [min |-> lo, max |-> hi]

\* safeMin = min <= max ? min : (min + max) / 2, and safeMax likewise
safeRange(lo, hi) ==
    IF lo <= hi THEN [min |-> lo, max |-> hi]
    ELSE [min |-> (lo + hi) \div 2, max |-> (lo + hi) \div 2]

\* the constants a run computes before its loop
locals(win) ==
    [minDistance |-> minDistance(win),
     safeX |-> safeRange(minX(win), maxX(win)),
     safeY |-> safeRange(minY(win), maxY(win))]

\* rand(min, max) = min + Math.random() * (max - min), Math.random() = u / RandDen;
\* min and max in Unit steps, the value in Fine steps
rand(min, max, u) == min * RandDen + u * (max - min)

\* the candidate built from the Math.random calls number n, n + 1, n + 2
candidate(loc, stream, n) ==
    [x    |-> rand(loc.safeX.min, loc.safeX.max, MathRandom(stream, n)),
     y    |-> rand(loc.safeY.min, loc.safeY.max, MathRandom(stream, n + 1)),
     tilt |-> rand(-14 * Unit, 14 * Unit, MathRandom(stream, n + 2))]

Abs(v) == IF v < 0 THEN -v ELSE v

\* v * v for 0 <= v < Limb * Limb, as <<high, low>> with
\* v * v = high * Limb * Limb + low and low < Limb * Limb
Limb == 32 * 32
square(v) ==
    LET h == v \div Limb
        l == v % Limb
        m == 2 * h * l
        low == (m % Limb) * Limb + l * l
    IN  <<h * h + m \div Limb + low \div (Limb * Limb), low % (Limb * Limb)>>

\* Math.hypot(dx, dy) >= d, for 0 < d < Limb * Limb, as dx * dx + dy * dy >= d * d
\* worked out in two limbs
hypotAtLeast(dx, dy, d) ==
    \/ Abs(dx) >= d
    \/ Abs(dy) >= d
    \/ LET sx == square(Abs(dx))
           sy == square(Abs(dy))
           sd == square(d)
           high == sx[1] + sy[1] + (sx[2] + sy[2]) \div (Limb * Limb)
           low == (sx[2] + sy[2]) % (Limb * Limb)
       IN  high > sd[1] \/ (high = sd[1] /\ low >= sd[2])

\* a plausible slip: only the most recently accepted position is tested
ClearOfLastOnly(positions, cand, d) ==
    \/ positions = <<>>
    \/ hypotAtLeast(positions[Len(positions)].x - cand.x,
                    positions[Len(positions)].y - cand.y, d * RandDen)

\* positions.every((pos) => Math.hypot(pos.x - candidate.x, pos.y - candidate.y) >= minDistance);
\* the positions in Fine steps, minDistance d in Unit steps
clear(positions, cand, d) ==
    \A i \in 1..Len(positions) :
        hypotAtLeast(positions[i].x - cand.x, positions[i].y - cand.y, d * RandDen)

\* The for loop with its break: the least attempt below maxAttempts whose
\* candidate is clear, or -1 when the loop ends without one. Attempt t of a
\* piece whose first draw is call number n builds candidate(loc, stream, n + 3 * t).
\* MathRandom has period RandDen in the call number, so the candidate of call
\* number m is the candidate of m % RandDen: whether it is clear is worked
\* out once per residue and looked up by the attempts.
firstClearAttempt(loc, stream, positions, n) ==
    LET clearOf == [i \in 1..RandDen |->
                       clear(positions, candidate(loc, stream, i - 1), loc.minDistance)] \o <<>>
        isClear(t) == clearOf[((n + 3 * t) % RandDen) + 1]
    IN  IF \E t \in 0..(maxAttempts - 1) : isClear(t)
        THEN CHOOSE t \in 0..(maxAttempts - 1) :
                 isClear(t) /\ \A s \in 0..(t - 1) : ~isClear(s)
        ELSE -1

\* a plausible slip: the fallback records the last candidate of the loop
FallbackIsLastAttempt(loc, stream, n) == candidate(loc, stream, n + 3 * (maxAttempts - 1))

\* if (!placed) positions.push({ x: rand(...), y: rand(...), tilt: rand(...) }):
\* the candidate drawn after maxAttempts attempts of a piece starting at call n
fallbackCandidate(loc, stream, n) == candidate(loc, stream, n + 3 * maxAttempts)

\* One callback of pieces.forEach. acc = [positions, calls, inLoop, lastLoop, first]:
\* the positions pushed so far, the number of Math.random calls made so far,
\* and per piece whether it was pushed inside the loop, the last candidate its
\* loop built and the call number of its first draw.
placeOne(loc, stream, acc) ==
    LET n == acc.calls
        t == firstClearAttempt(loc, stream, acc.positions, n)
    IN  IF t # -1
        THEN [positions |-> Append(acc.positions, candidate(loc, stream, n + 3 * t)),
              calls     |-> n + 3 * (t + 1),
              inLoop    |-> Append(acc.inLoop, TRUE),
              lastLoop  |-> Append(acc.lastLoop, candidate(loc, stream, n + 3 * t)),
              first     |-> Append(acc.first, n)]
        ELSE [positions |-> Append(acc.positions, fallbackCandidate(loc, stream, n)),
              calls     |-> n + 3 * (maxAttempts + 1),
              inLoop    |-> Append(acc.inLoop, FALSE),
              lastLoop  |-> Append(acc.lastLoop,
                                   candidate(loc, stream, n + 3 * (maxAttempts - 1))),
              first     |-> Append(acc.first, n)]

\* pieces.forEach, from piece number k on
RECURSIVE forEachPiece(_, _, _, _)
forEachPiece(loc, stream, acc, k) ==
    IF k > Len(pieces) THEN acc
    ELSE LET next == placeOne(loc, stream, acc)
         IN  IF Len(next.positions) = k
             THEN forEachPiece(loc, stream, next, k + 1)
             ELSE acc

NoRun == [positions |-> <<>>, calls |-> 0, inLoop |-> <<>>, lastLoop |-> <<>>, first |-> <<>>]

\* the locals of a generateScatter run on window win with random stream stream
scatterRun(win, stream) == forEachPiece(locals(win), stream, NoRun, 1)

\* Object.fromEntries(pieces.map((piece, index) => [piece.id, {start, tilt}]))
scatterOf(positions) ==
    [id \in PieceIds |->
        [start |-> [x |-> positions[piecesById[id]].x, y |-> positions[piecesById[id]].y],
         tilt  |-> positions[piecesById[id]].tilt]]

\* Windows the runs are tried on: innerWidth x innerHeight in CSS pixels and
\* the bounding rect of the stage (left, top, width, height).
Win(w, h, l, t, rw, rh) ==
    [innerWidth |-> w, innerHeight |-> h, left |-> l, top |-> t, width |-> rw, height |-> rh]

WideWindow == Win(3840, 2160, 0, 0, 3840, 2160)

Windows ==
    { WideWindow,                         \* room for every piece
      Win(800, 600, 0, 0, 800, 600),      \* crowded
      Win(801, 601, 16, 8, 701, 555),     \* crowded, stage off centre, odd sizes
      Win(700, 200, 0, 0, 700, 200),      \* small pieces, no room on the y axis
      Win(360, 640, 0, 0, 360, 640),      \* small pieces, narrow
      Win(200, 150, 0, 0, 200, 150) }     \* no room on either axis

WideStream == [a |-> 1, b |-> 0]

\* scatterRun tabulated over the inputs of the events below
ScatterRuns == [p \in Windows \X Streams |-> scatterRun(p[1], p[2])] @@ <<>>

\* generateScatter, called by the mount effect and by every resize event.
\* Its early return (stageRef.current unset) is never taken: the ref is set
\* before the mount effect runs and the listener is added by that effect.
generateScatter(win, stream) ==
    LET r == ScatterRuns[<<win, stream>>]
    IN  /\ window' = win
        /\ random' = stream
        /\ scatter' = scatterOf(r.positions)

(***************************************************************************)
(* Events                                                                  *)
(***************************************************************************)
\* useEffect(() => { generateScatter(); window.addEventListener('resize', ...) }, [])
Mount(wins, streams) ==
    /\ ~mounted
    /\ mounted' = TRUE
    /\ \E win \in wins, stream \in streams : generateScatter(win, stream)
    /\ UNCHANGED <<placed, showExplosion, explosionTimer, view>>

\* a resize event of the window
Resize(wins, streams) ==
    /\ mounted
    /\ \E win \in wins, stream \in streams : generateScatter(win, stream)
    /\ UNCHANGED <<placed, showExplosion, explosionTimer, mounted, view>>

\* texts a drop can carry: the ids of the pieces, no text, unknown texts
DropIds == PieceIds \cup {"", "p0", "p17", "constructor", "__proto__"}
\* the slots that carry an onDrop handler
Slots == {pieces[i].slot : i \in DOMAIN pieces}
\* the slots a drop carrying id is tried on: for a piece its own slot and the
\* slot after it, for any other text the first and the last slot
DropSlots(id) ==
    IF id \in PieceIds
    THEN {s \in Slots : \E i \in DOMAIN pieces :
              pieces[i].id = id /\ s \in {i - 1, i % Len(pieces)}}
    ELSE {s \in Slots : s = 0 \/ s = Len(pieces) - 1}

handleDrop(id, slotIndex) ==
    /\ mounted
    /\ placed' = dropResult(placed, id, slotIndex)
    /\ UNCHANGED <<scatter, showExplosion, explosionTimer, mounted, window, random, view>>

\* handleExplosion: a pending timeout is cleared and a new one is set
handleExplosion ==
    /\ mounted
    /\ showExplosion' = TRUE
    /\ explosionTimer' = [current |-> TRUE, pending |-> TRUE]
    /\ UNCHANGED <<placed, scatter, mounted, window, random, view>>

\* the timeout set by handleExplosion fires: () => setShowExplosion(false)
explosionTimeout ==
    /\ explosionTimer.pending
    /\ showExplosion' = FALSE
    /\ explosionTimer' = [explosionTimer EXCEPT !.pending = FALSE]
    /\ UNCHANGED <<placed, scatter, mounted, window, random, view>>

\* a render of the pieces number i and j: their outlines
renderPieces(i, j) ==
    /\ view' = <<outlineOf(pieces[i]), outlineOf(pieces[j])>>
    /\ UNCHANGED <<placed, scatter, showExplosion, explosionTimer, mounted, window, random>>

NoView == <<>>

Init ==
    /\ placed = [id \in PieceIds |-> FALSE]
    /\ scatter = [id \in PieceIds |-> [start |-> [x |-> 0, y |-> 0], tilt |-> 0]]
    /\ showExplosion = FALSE
    /\ explosionTimer = [current |-> FALSE, pending |-> FALSE]
    /\ mounted = FALSE
    /\ window = WideWindow
    /\ random = WideStream
    /\ view = NoView

MountWide == Mount({WideWindow}, {WideStream})
ResizeTwo == Resize({WideWindow, Win(800, 600, 0, 0, 800, 600)}, {WideStream})

\* drops of the first MaxDropPiece pieces and of the other texts, on every slot
MaxDropPiece == 6
DropFew ==
    \E id \in {pieces[i].id : i \in 1..MaxDropPiece} \cup (DropIds \ PieceIds) :
        \E slotIndex \in Slots : handleDrop(id, slotIndex)

Next ==
    \/ MountWide
    \/ ResizeTwo
    \/ DropFew
    \/ handleExplosion
    \/ explosionTimeout

\* every kind of event: resizes, explosion clicks and timeouts, drops of a few pieces
Spec == Init /\ [][Next]_vars

\* drops of every text of DropIds, on the slots of DropSlots
Drop == \E id \in DropIds : \E slotIndex \in DropSlots(id) : handleDrop(id, slotIndex)

NextDrops == MountWide \/ Drop

\* the drops of all pieces, up to the completed puzzle
SpecDrops == Init /\ [][NextDrops]_vars

MountAny == Mount(Windows, Streams)
ResizeAny == Resize(Windows, Streams)

NextScatter == MountAny \/ ResizeAny

\* the layout solver on every window and random stream
SpecScatter == Init /\ [][NextScatter]_vars

Render == \E i \in DOMAIN pieces, j \in DOMAIN pieces : renderPieces(i, j)

NextOutline == Render

\* the outlines of every two pieces
SpecOutline == Init /\ [][NextOutline]_vars

(***************************************************************************)
(* Properties                                                              *)
(***************************************************************************)
Placed(id) == id \in DOMAIN placed /\ placed[id]
AllPlaced == \A id \in PieceIds : Placed(id)

\* the slot of the piece with this id: its index in the piece list
HomeSlot(id) == CHOOSE s \in 0..(Len(PieceIdTable) - 1) : PieceIdTable[s + 1] = id

\* C1: in every reachable state, a drop of text id on slot s changes placed
\* exactly when id is a piece's id, that piece is unplaced and s is its home
\* slot; it then sets placed[id] and nothing else, and a second such drop
\* changes nothing.
C1_DropEffect ==
    \A id \in DropIds, s \in Slots :
        LET ok == id \in PieceIds /\ ~Placed(id) /\ s = HomeSlot(id)
            after == dropResult(placed, id, s)
        IN  /\ ok => after = [placed EXCEPT ![id] = TRUE] /\ after # placed
            /\ ~ok => after = placed
            /\ dropResult(after, id, s) = after

C1_Witness == Placed("p7") /\ ~Placed("p3") /\ ~Placed("p8")

\* C2: a placed piece stays placed at every step, and every step that changes
\* placed is a handleDrop (of a piece on its home slot).
C2_OneWay ==
    [][\/ placed' = placed
       \/ /\ \A id \in PieceIds :
                 Placed(id) => (id \in DOMAIN placed' /\ placed'[id])
          /\ \E id \in PieceIds : handleDrop(id, HomeSlot(id))]_vars

C2_Witness ==
    /\ Placed("p1") /\ ~Placed("p2")
    /\ explosionTimer.current /\ ~explosionTimer.pending
    /\ window # WideWindow

\* C3: isComplete holds exactly when each of the 16 pieces is placed.
C3_CompleteIffAllPlaced == isComplete <=> AllPlaced

C3_Witness == AllPlaced /\ isComplete /\ Cardinality(PieceIds) = ROWS * COLS

\* the cell of a slot: slot = row * COLS + col
CellOf(slot) ==
    CHOOSE rc \in (0..(ROWS - 1)) \X (0..(COLS - 1)) : rc[1] * COLS + rc[2] = slot

\* the second rendered piece is the right (lower) neighbour of the first
RightOf == view # <<>> /\ CellOf(view[2].slot) = <<CellOf(view[1].slot)[1], CellOf(view[1].slot)[2] + 1>>
Below == view # <<>> /\ CellOf(view[2].slot) = <<CellOf(view[1].slot)[1] + 1, CellOf(view[1].slot)[2]>>

\* C4: across every shared edge the two edge codes are +1 and -1.
C4_Complementary ==
    /\ RightOf => /\ {view[1].edges.right, view[2].edges.left} = {1, -1}
                  /\ view[1].edges.right + view[2].edges.left = 0
    /\ Below => /\ {view[1].edges.bottom, view[2].edges.top} = {1, -1}
                /\ view[1].edges.bottom + view[2].edges.top = 0

C4_Witness == RightOf /\ view[1].slot = 6 /\ view[1].edges.right # 0

\* C5: an edge code is 0 exactly on the grid boundary and +1 or -1 elsewhere.
C5_FlatIffBoundary ==
    \A k \in DOMAIN view :
        LET e == view[k].edges
            row == CellOf(view[k].slot)[1]
            col == CellOf(view[k].slot)[2]
        IN  /\ \A side \in DOMAIN e : e[side] \in {-1, 0, 1}
            /\ DOMAIN e = {"top", "right", "bottom", "left"}
            /\ e.top = 0 <=> row = 0
            /\ e.bottom = 0 <=> row = ROWS - 1
            /\ e.left = 0 <=> col = 0
            /\ e.right = 0 <=> col = COLS - 1

C5_Witness == view # <<>> /\ view[1].slot = 15 /\ view[2].slot = 5

Sides == {"top", "right", "bottom", "left"}

\* C9: on every edge of every outline, code +1 draws an arc bulging out of
\* the cell square and code -1 an arc bulging into it.
C9_TabOutBlankIn ==
    \A k \in DOMAIN view : \A side \in Sides :
        LET code == view[k].edges[side]
            arcs == sideArcs(view[k].path, side)
        IN  code # 0 =>
                /\ Cardinality(arcs) = 1
                /\ \A a \in arcs : /\ code = 1 => outsideCell(apex(a))
                                   /\ code = -1 => insideCell(apex(a))

\* the apex of an arc of the piece on cell <<row, col>>, in board coordinates
onBoard(pt, cell) == [x |-> pt.x + 100 * cell[2], y |-> pt.y + 100 * cell[1]]

\* the arcs two neighbours draw on their shared edge coincide: one arc each,
\* the same apex on the board, outside one cell and inside the other
Interlock(arcsA, cellA, arcsB, cellB) ==
    /\ Cardinality(arcsA) = 1
    /\ Cardinality(arcsB) = 1
    /\ \A a \in arcsA : \A b \in arcsB :
           /\ onBoard(apex(a), cellA) = onBoard(apex(b), cellB)
           /\ outsideCell(apex(a)) <=> insideCell(apex(b))
           /\ outsideCell(apex(b)) <=> insideCell(apex(a))

\* C10: on every shared edge the two outlines bulge to the same side.
C10_Interlock ==
    /\ RightOf => Interlock(sideArcs(view[1].path, "right"), CellOf(view[1].slot),
                            sideArcs(view[2].path, "left"), CellOf(view[2].slot))
    /\ Below => Interlock(sideArcs(view[1].path, "bottom"), CellOf(view[1].slot),
                          sideArcs(view[2].path, "top"), CellOf(view[2].slot))

C10_Witness == Below /\ view[1].slot = 9 /\ sideArcs(view[2].path, "top") # {}

\* the last run of generateScatter
LastRun == ScatterRuns[<<window, random>>]
\* the scatter entry of the piece number k
Entry(k) == scatter[pieces[k].id]
\* the candidates the run sampled for the piece number k
Samples(k) ==
    ((IF k = Len(pieces) THEN LastRun.calls ELSE LastRun.first[k + 1]) - LastRun.first[k]) \div 3

\* the sampling rectangle as the claim words it: the window inset by
\* padding + pieceVisualSize / 2, relative to the stage centre, an empty
\* range replaced by its midpoint; in Fine steps
InsetRange(size, centre, win) ==
    LET inset == padding * Unit + pieceVisualSize(win) \div 2
        lo == inset - centre
        hi == size * Unit - inset - centre
    IN  IF lo <= hi THEN [min |-> lo * RandDen, max |-> hi * RandDen]
        ELSE [min |-> ((lo + hi) * RandDen) \div 2, max |-> ((lo + hi) * RandDen) \div 2]

\* C6: after every run there is one entry per piece, inside the rectangle.
C6_AllInsideRect ==
    mounted =>
        /\ DOMAIN scatter = PieceIds
        /\ Cardinality(PieceIds) = Len(pieces)
        /\ \A id \in PieceIds :
               LET rx == InsetRange(window.innerWidth, centerX(window), window)
                   ry == InsetRange(window.innerHeight, centerY(window), window)
               IN  /\ rx.min <= scatter[id].start.x /\ scatter[id].start.x <= rx.max
                   /\ ry.min <= scatter[id].start.y /\ scatter[id].start.y <= ry.max

\* a run on a window with no room on the y axis, in which a piece ran out of attempts
C6_Witness ==
    /\ mounted
    /\ minY(window) > maxY(window) /\ minX(window) < maxX(window)
    /\ \E k \in DOMAIN pieces : ~LastRun.inLoop[k]
    /\ \E id \in PieceIds : scatter[id].start.x # scatter["p1"].start.x

FarEnough(i, j) ==
    hypotAtLeast(Entry(i).start.x - Entry(j).start.x,
                 Entry(i).start.y - Entry(j).start.y, minDistance(window) * RandDen)

\* C7: a piece accepted inside the loop is minDistance away from every piece
\* before it; so with no piece out of attempts all pairs are, and a closer
\* pair holds a piece placed by the fallback.
C7_AcceptedAreSeparated ==
    mounted =>
        /\ \A j \in DOMAIN pieces : LastRun.inLoop[j] => \A i \in 1..(j - 1) : FarEnough(i, j)
        /\ (\A k \in DOMAIN pieces : LastRun.inLoop[k]) =>
               \A i \in DOMAIN pieces, j \in DOMAIN pieces : i # j => FarEnough(i, j)
        /\ \A i \in DOMAIN pieces, j \in DOMAIN pieces :
               (i # j /\ ~FarEnough(i, j)) => (~LastRun.inLoop[i] \/ ~LastRun.inLoop[j])

\* a run in which no piece ran out of attempts
C7_Witness == mounted /\ \A k \in DOMAIN pieces : LastRun.inLoop[k]

AsEntry(cand) == [start |-> [x |-> cand.x, y |-> cand.y], tilt |-> cand.tilt]

\* C8 as claimed: a piece out of attempts records the last candidate of its
\* loop, and no piece samples more than maxAttempts candidates.
C8_FallbackIsLastAttempt ==
    mounted =>
        \A k \in DOMAIN pieces :
            /\ Samples(k) <= maxAttempts
            /\ ~LastRun.inLoop[k] => Entry(k) = AsEntry(LastRun.lastLoop[k])

\* C8 as amended: a piece out of attempts records one more candidate, drawn
\* after the loop (its sample number maxAttempts + 1); a piece accepted in
\* the loop records the last candidate of its loop.
C8_FallbackIsFreshDraw ==
    mounted =>
        \A k \in DOMAIN pieces :
            IF LastRun.inLoop[k]
            THEN /\ Samples(k) <= maxAttempts
                 /\ Entry(k) = AsEntry(LastRun.lastLoop[k])
            ELSE /\ Samples(k) = maxAttempts + 1
                 /\ Entry(k) = AsEntry(candidate(locals(window), random,
                                                 LastRun.first[k] + 3 * maxAttempts))
                 /\ LastRun.lastLoop[k] =
                        candidate(locals(window), random,
                                  LastRun.first[k] + 3 * (maxAttempts - 1))

\* a piece out of attempts whose entry is not the last candidate of its loop
C8_Witness ==
    /\ mounted
    /\ \E k \in DOMAIN pieces :
           ~LastRun.inLoop[k] /\ Entry(k) # AsEntry(LastRun.lastLoop[k])

====
